---- MODULE Spec2Model ----
(***************************************************************************)
(* Model of the Inventarios point of sale: product stock, checkout          *)
(* (PosService.checkout run inside WebviewBackend.checkout's session        *)
(* scope), and the cash-day reconciliation handlers of WebviewBackend.      *)
(*                                                                          *)
(* Money is kept in integer cents where the code holds a Decimal quantized  *)
(* to 0.01; amounts that arrive from a caller are integers in thousandths   *)
(* and pass through the same rounding the code applies to them.             *)
(***************************************************************************)
EXTENDS Integers, Sequences, FiniteSets, TLC

VARIABLES
  products,    \* table products: key -> row
  sales,       \* table sales (+ sale_lines), in insertion order
  cashDays,    \* table cash_days: day -> row
  cashMoves,   \* table cash_moves: id -> row
  cashCloses,  \* table cash_closes, in insertion order
  today,       \* the date datetime.utcnow() falls on
  sess,        \* per request thread: the open session and what it has loaded
  last,        \* the request that returned most recently, with its response
  stockMoves   \* table stock_moves, in insertion order

vars == <<products, sales, cashDays, cashMoves, cashCloses, today, sess, last,
         stockMoves>>

----------------------------------------------------------------------------
(* Bounds of the model *)

MaxStock == 2
MaxSales == 1
MaxMoves == 1
MaxDay == 3
NumSessions == 2
MaxProducts == 3
MaxLog == 2

Keys == {"a", "b"}
GhostKey == "zz"
Sessions == 1..NumSessions

(* Optional values: Python's None is the empty tuple, a value v is <<v>>. *)
None == <<>>
Some(v) == <<v>>
IsNone(o) == o = <<>>
Val(o) == o[1]

----------------------------------------------------------------------------
(* Money *)

(* Decimal.quantize(Decimal("0.01"), rounding=ROUND_HALF_UP) of an amount   *)
(* given in thousandths; the result is in cents. Ties go away from zero.    *)
money(x) ==
  LET q == x \div 10
      r == x % 10
  IN IF r > 5 THEN q + 1
     ELSE IF r < 5 THEN q
     ELSE IF x >= 0 THEN q + 1 ELSE q

(* Decimal.quantize(Decimal("0.01")) under the default context, which       *)
(* rounds half to even.                                                     *)
quantize(x) ==
  LET q == x \div 10
      r == x % 10
  IN IF r > 5 THEN q + 1
     ELSE IF r < 5 THEN q
     ELSE IF q % 2 = 0 THEN q ELSE q + 1

(* A stored Numeric(12, 2) read back as a Decimal, in thousandths. *)
Dec(cents) == cents * 10

----------------------------------------------------------------------------
(* Responses *)

ErrEmptyCart == "Carrito vacio"
ErrPayment == "Metodo de pago invalido"
ErrNotFound == "Productos no encontrados"
ErrStock == "Stock insuficiente"
ErrCash == "Efectivo insuficiente"
ErrProduct == "Producto no encontrado"
ErrQty == "Cantidad invalida"

NoCall == [op |-> "none"]

----------------------------------------------------------------------------
(* Checkout *)

CartHas(cart, k) == \E i \in DOMAIN cart : cart[i].key = k

CartAdd(cart, k, q) ==
  IF CartHas(cart, k)
  THEN [i \in DOMAIN cart |->
          IF cart[i].key = k THEN [key |-> k, qty |-> cart[i].qty + q] ELSE cart[i]]
  ELSE Append(cart, [key |-> k, qty |-> q])

RECURSIVE BuildCartFrom(_, _)
BuildCartFrom(lines, cart) ==
  IF lines = <<>> THEN cart
  ELSE LET ln == Head(lines)
       IN IF ln.key # "" /\ ln.qty > 0
          THEN BuildCartFrom(Tail(lines), CartAdd(cart, ln.key, ln.qty))
          ELSE BuildCartFrom(Tail(lines), cart)

(* WebviewBackend.checkout: the request's lines summed per key, in the      *)
(* order the keys first appear.                                             *)
BuildCart(lines) == BuildCartFrom(lines, <<>>)

CartKeys(cart) == {cart[i].key : i \in DOMAIN cart}

(* ProductRepo.get_by_keys: the rows of the requested keys that exist, as   *)
(* the session loads them.                                                  *)
get_by_keys(prods, keys) == [k \in (keys \cap DOMAIN prods) |-> prods[k]]

RECURSIVE SumLineTotals(_)
SumLineTotals(lines) ==
  IF lines = <<>> THEN 0 ELSE Head(lines).line_total + SumLineTotals(Tail(lines))

(* The lines built with the unit price as each line's total. *)
MakeLinesUnitOnly(by_key, cart) ==
  [i \in DOMAIN cart |->
     LET p == by_key[cart[i].key]
         unit == money(Dec(p.precio_final))
     IN [product_key |-> cart[i].key,
         producto |-> p.producto,
         descripcion |-> p.descripcion,
         qty |-> cart[i].qty,
         unit_price |-> unit,
         line_total |-> unit]]

(* The sale lines PosService.checkout builds, one per cart entry. *)
MakeLines(by_key, cart) ==
  [i \in DOMAIN cart |->
     LET p == by_key[cart[i].key]
         unit == money(Dec(p.precio_final))
     IN [product_key |-> cart[i].key,
         producto |-> p.producto,
         descripcion |-> p.descripcion,
         qty |-> cart[i].qty,
         unit_price |-> unit,
         line_total |-> quantize(Dec(unit * cart[i].qty))]]

(* missing built without its "not in by_key" filter. *)
MissingAll(by_key, cart) == [i \in DOMAIN cart |-> cart[i].key]

(* PosService.checkout's missing: the cart keys that were not loaded. *)
Missing(by_key, cart) ==
  SelectSeq([i \in DOMAIN cart |-> cart[i].key], LAMBDA k : k \notin DOMAIN by_key)

(* The stock test left out. *)
InsufficientNone(by_key, cart) == <<>>

(* The cart lines that ask for more than the loaded row holds. *)
Insufficient(by_key, cart) ==
  SelectSeq([i \in DOMAIN cart |->
               [key |-> cart[i].key,
                producto |-> by_key[cart[i].key].producto,
                available |-> by_key[cart[i].key].unidades,
                requested |-> cart[i].qty]],
            LAMBDA d : d.available < d.requested)

(* The stock updates left out. *)
ApplyStockNone(by_key, cart) == by_key

(* "Apply stock updates": every loaded row of the cart, decremented. *)
ApplyStock(by_key, cart) ==
  [k \in DOMAIN by_key |->
     IF CartHas(cart, k)
     THEN LET i == CHOOSE j \in DOMAIN cart : cart[j].key = k
          IN [by_key[k] EXCEPT !.unidades = by_key[k].unidades - cart[i].qty]
     ELSE by_key[k]]

(* A failed CheckoutResult; missing is the key list the "Productos no        *)
(* encontrados" message carries.                                            *)
Fail(err, missing, details, rows) ==
  [res |-> [ok |-> FALSE, error |-> err, missing |-> missing, details |-> details],
   rows |-> rows, sale |-> None]

(* PosService.checkout on the rows the session loaded. The result holds the *)
(* CheckoutResult, the rows as the session holds them when the method       *)
(* returns (dirty rows included) and the Sale it added, if any.             *)
PosCheckout(by_key, cart0, payment_method, cash_received) ==
  LET cart == SelectSeq(cart0, LAMBDA c : c.qty > 0)
      pm == IF payment_method = "" THEN "cash" ELSE payment_method
      missing == Missing(by_key, cart)
  IN IF cart = <<>> THEN Fail(ErrEmptyCart, <<>>, <<>>, by_key)
     ELSE IF pm \notin {"cash", "card", "nequi", "virtual"}
       THEN Fail(ErrPayment, <<>>, <<>>, by_key)
     ELSE IF missing # <<>> THEN Fail(ErrNotFound, missing, <<>>, by_key)
     ELSE IF Insufficient(by_key, cart) # <<>>
       THEN Fail(ErrStock, <<>>, Insufficient(by_key, cart), by_key)
     ELSE
       LET lines == MakeLines(by_key, cart)
           total == SumLineTotals(lines)
           rows == ApplyStock(by_key, cart)
           cash_received_d ==
             IF pm = "cash" /\ ~IsNone(cash_received)
             THEN Some(money(Val(cash_received))) ELSE None
       IN IF ~IsNone(cash_received_d) /\ Val(cash_received_d) < total
          THEN Fail(ErrCash, <<>>, <<>>, rows)
          ELSE [res |-> [ok |-> TRUE, error |-> "", missing |-> <<>>, details |-> <<>>,
                         total |-> total, payment_method |-> pm,
                         cash_received |-> cash_received_d,
                         change_given |->
                           IF IsNone(cash_received_d) THEN None
                           ELSE Some(money(Dec(Val(cash_received_d) - total)))],
                rows |-> rows,
                sale |-> Some([total |-> total, payment_method |-> pm,
                               cash_received |-> cash_received_d,
                               change_given |->
                                 IF IsNone(cash_received_d) THEN None
                                 ELSE Some(money(Dec(Val(cash_received_d) - total))),
                               lines |-> lines])]

(* session.commit() of session_scope: the flush writes, for every loaded    *)
(* row whose unidades the session changed, UPDATE products SET unidades =    *)
(* <the value the session holds>; columns the session did not change are     *)
(* not written.                                                              *)
FlushRows(prods, loaded, rows) ==
  [k \in DOMAIN prods |->
     IF k \in DOMAIN rows /\ rows[k].unidades # loaded[k].unidades
     THEN [prods[k] EXCEPT !.unidades = rows[k].unidades]
     ELSE prods[k]]

(* SalesRepo.create_sale: the INSERT of the sale, dated by created_at. *)
create_sale(ss, sale, day) ==
  Append(ss, [id |-> Len(ss) + 1, day |-> day] @@ sale)

----------------------------------------------------------------------------
(* Stock *)

(* adjust_stock without the clamp at 0. *)
adjust_stock_unclamped(row, delta) ==
  [new_stock |-> row.unidades + delta, d |-> delta]

(* adjust_stock recording the delta it was asked for. *)
adjust_stock_requested(row, delta) ==
  LET new_stock == row.unidades + delta
  IN [new_stock |-> IF new_stock < 0 THEN 0 ELSE new_stock, d |-> delta]

(* ProductRepo.adjust_stock on a loaded row: the new stock, clamped at 0,   *)
(* and the delta actually applied.                                          *)
adjust_stock(row, delta) ==
  LET new_stock == row.unidades + delta
  IN IF new_stock < 0
     THEN [new_stock |-> 0, d |-> 0 - row.unidades]
     ELSE [new_stock |-> new_stock, d |-> delta]

(* ProductRepo.set_stock on a loaded row. *)
set_stock(row, stock) ==
  LET new_stock == IF stock > 0 THEN stock ELSE 0
  IN [new_stock |-> new_stock, d |-> new_stock - row.unidades]

----------------------------------------------------------------------------
(* Cash days *)

ErrClosed == "La caja de este dia ya fue cerrada."
ErrMismatch == "Diferencia en caja"
ErrCarried == "La apertura se arrastra del cierre anterior."
ErrWithdrawal == "El retiro debe ser mayor a 0"
ErrDayClosed == "El dia ya esta cerrado. No se pueden agregar retiros."
ErrMove == "Movimiento invalido"
ErrNoMove == "No existe"

(* getCashPanel sums the withdrawals its query returns: .limit(50). *)
PanelMovesLimit == 50

NoRows == [x \in {} |-> 0]

Max(S) == CHOOSE x \in S : \A y \in S : y <= x

RECURSIVE SumOver(_, _)
SumOver(f, S) ==
  IF S = {} THEN 0
  ELSE LET x == CHOOSE y \in S : TRUE IN f[x] + SumOver(f, S \ {x})

(* _ensure_cash_day creating the row as a manual opening. *)
_ensure_cash_day_manual(days, day) ==
  IF day \in DOMAIN days THEN days
  ELSE days @@ (day :> [opening_cash |-> 0, opening_cash_manual |-> 1])

(* WebviewBackend._ensure_cash_day: the day's row, created at 0.00 and not  *)
(* manual when absent.                                                      *)
_ensure_cash_day(days, day) ==
  IF day \in DOMAIN days THEN days
  ELSE days @@ (day :> [opening_cash |-> 0, opening_cash_manual |-> 0])

(* Indexes of the closes of days before day. *)
ClosesBefore(closes, day) == {i \in DOMAIN closes : closes[i].day < day}

(* _get_prev_close taking the oldest earlier day instead of the newest. *)
_get_prev_close_oldest(closes, day) ==
  LET before == ClosesBefore(closes, day)
  IN IF before = {} THEN None
     ELSE Some(closes[CHOOSE i \in before :
                        \A j \in before : closes[i].day <= closes[j].day])

(* WebviewBackend._get_prev_close: of the closes with day < day, the one of *)
(* the greatest day, the most recently created first.                       *)
_get_prev_close(closes, day) ==
  LET before == ClosesBefore(closes, day)
  IN IF before = {} THEN None
     ELSE Some(closes[CHOOSE i \in before :
                        \A j \in before :
                          \/ closes[j].day < closes[i].day
                          \/ closes[j].day = closes[i].day /\ j <= i])

(* is_initial that never sees the manual flag. *)
is_initial_never(day_row) == FALSE

(* _get_opening_cash's is_initial: the day's row holds a one-time opening   *)
(* entered by the user.                                                     *)
is_initial(day_row) == day_row.opening_cash_manual = 1

(* WebviewBackend._get_opening_cash: (opening_cash, source,                 *)
(* needs_initial_opening) and the cash_days rows as the session holds them  *)
(* afterwards.                                                              *)
_get_opening_cash(days0, closes, day) ==
  LET days == _ensure_cash_day(days0, day)
      day_row == days[day]
      prev == _get_prev_close(closes, day)
  IN IF ~IsNone(prev)
     THEN LET opening == quantize(Dec(Val(prev).carry_to_next_day))
          IN [opening_cash |-> opening, source |-> "prev_close", needs_initial |-> FALSE,
              days |-> IF quantize(Dec(day_row.opening_cash)) # opening
                          \/ day_row.opening_cash_manual # 0
                       THEN [days EXCEPT ![day] =
                               [opening_cash |-> opening, opening_cash_manual |-> 0]]
                       ELSE days]
     ELSE IF is_initial(day_row)
     THEN [opening_cash |-> quantize(Dec(day_row.opening_cash)), source |-> "initial",
           needs_initial |-> FALSE, days |-> days]
     ELSE [opening_cash |-> 0, source |-> "zero",
           needs_initial |-> closes = <<>>, days |-> days]

(* SalesRepo.totals_for_day: the day's sale totals per payment method. *)
totals_for_day(ss, day) ==
  LET of(method) ==
        LET S == {i \in DOMAIN ss : ss[i].day = day /\ ss[i].payment_method = method}
        IN SumOver([i \in S |-> ss[i].total], S)
      cash_total == of("cash")
      card_total == of("card")
      nequi_total == of("nequi")
      virtual_total == of("virtual")
  IN [gross_total |-> quantize(Dec(cash_total + card_total + nequi_total + virtual_total)),
      cash_total |-> quantize(Dec(cash_total)),
      card_total |-> quantize(Dec(card_total)),
      nequi_total |-> quantize(Dec(nequi_total)),
      virtual_total |-> quantize(Dec(virtual_total)),
      sales_count |-> Cardinality({i \in DOMAIN ss : ss[i].day = day})]

(* Ids of the day's withdrawals. *)
Withdrawals(moves, day) ==
  {i \in DOMAIN moves : moves[i].day = day /\ moves[i].kind = "withdrawal"}

(* The n most recently created of the ids S. *)
RECURSIVE Newest(_, _)
Newest(S, n) ==
  IF n = 0 \/ S = {} THEN {} ELSE {Max(S)} \cup Newest(S \ {Max(S)}, n - 1)

(* getCashPanel's withdrawals_total: the sum of the rows its query, ordered *)
(* by created_at descending and limited, returns.                           *)
PanelWithdrawalsTotal(moves, day) ==
  LET S == Newest(Withdrawals(moves, day), PanelMovesLimit)
  IN quantize(Dec(SumOver([i \in S |-> moves[i].amount], S)))

(* closeCashDay's withdrawals_total: the sum of all the day's withdrawals. *)
CloseWithdrawalsTotal(moves, day) ==
  LET S == Withdrawals(moves, day)
  IN quantize(Dec(SumOver([i \in S |-> moves[i].amount], S)))

(* The most recently created close of the day, if any. *)
LastCloseOf(closes, day) ==
  LET S == {i \in DOMAIN closes : closes[i].day = day}
  IN IF S = {} THEN None ELSE Some(closes[Max(S)])

HasClose(closes, day) == \E i \in DOMAIN closes : closes[i].day = day

(* _next_day giving the day itself. *)
_next_day_same(day) == day

(* WebviewBackend._next_day *)
_next_day(day) == day + 1

(* WebviewBackend.getCashPanel *)
GetCashPanel(day) ==
  LET o == _get_opening_cash(cashDays, cashCloses, day)
      t == totals_for_day(sales, day)
      withdrawals_total == PanelWithdrawalsTotal(cashMoves, day)
      last_close == LastCloseOf(cashCloses, day)
  IN /\ cashDays' = o.days
     /\ last' = [op |-> "getCashPanel", day |-> day,
                 ret |-> [ok |-> TRUE,
                          opening_cash |-> o.opening_cash,
                          opening_source |-> o.source,
                          needs_initial_opening |-> o.needs_initial,
                          is_closed |-> ~IsNone(last_close),
                          withdrawals_total |-> withdrawals_total,
                          gross_total |-> t.gross_total,
                          cash_total |-> t.cash_total,
                          card_total |-> t.card_total,
                          sales_count |-> t.sales_count,
                          expected_cash_end |->
                            quantize(Dec(o.opening_cash + t.cash_total - withdrawals_total))]]
     /\ UNCHANGED <<products, sales, cashMoves, cashCloses, today, sess, stockMoves>>

(* any_close looked up for the day alone. *)
any_close_of_day(closes, day) == HasClose(closes, day)

(* setOpeningCash's any_close: a close exists, of whatever day. *)
any_close(closes, day) == closes # <<>>

(* WebviewBackend.setOpeningCash *)
SetOpeningCash(day, opening_cash) ==
  LET v == quantize(opening_cash)
  IN /\ IF any_close(cashCloses, day)
        THEN /\ last' = [op |-> "setOpeningCash", day |-> day,
                         ret |-> [ok |-> FALSE, error |-> ErrCarried]]
             /\ UNCHANGED cashDays
        ELSE /\ cashDays' = [_ensure_cash_day(cashDays, day) EXCEPT ![day] =
                               [opening_cash |-> v, opening_cash_manual |-> 1]]
             /\ last' = [op |-> "setOpeningCash", day |-> day,
                         ret |-> [ok |-> TRUE, opening_cash |-> v]]
     /\ UNCHANGED <<products, sales, cashMoves, cashCloses, today, sess, stockMoves>>

(* The amount test left out. *)
NotPositiveNever(v) == FALSE

(* addCashWithdrawal's "if v <= 0": the withdrawal is refused. *)
NotPositive(v) == v <= 0

(* WebviewBackend.addCashWithdrawal; cap bounds the cash_moves table. *)
AddCashWithdrawal(day, amount, cap) ==
  LET v == quantize(amount)
      id == IF DOMAIN cashMoves = {} THEN 1 ELSE Max(DOMAIN cashMoves) + 1
  IN /\ IF NotPositive(v)
        THEN /\ last' = [op |-> "addCashWithdrawal", day |-> day,
                         ret |-> [ok |-> FALSE, error |-> ErrWithdrawal]]
             /\ UNCHANGED <<cashDays, cashMoves>>
        ELSE IF HasClose(cashCloses, day)
        THEN /\ last' = [op |-> "addCashWithdrawal", day |-> day,
                         ret |-> [ok |-> FALSE, error |-> ErrDayClosed]]
             /\ UNCHANGED <<cashDays, cashMoves>>
        ELSE /\ Cardinality(DOMAIN cashMoves) < cap
             /\ cashDays' = _ensure_cash_day(cashDays, day)
             /\ cashMoves' = cashMoves @@
                               (id :> [day |-> day, kind |-> "withdrawal", amount |-> v])
             /\ last' = [op |-> "addCashWithdrawal", day |-> day,
                         ret |-> [ok |-> TRUE, id |-> id]]
     /\ UNCHANGED <<products, sales, cashCloses, today, sess, stockMoves>>

(* WebviewBackend.deleteCashMove *)
DeleteCashMove(move_id) ==
  /\ IF move_id <= 0
     THEN /\ last' = [op |-> "deleteCashMove",
                      ret |-> [ok |-> FALSE, error |-> ErrMove]]
          /\ UNCHANGED cashMoves
     ELSE IF move_id \notin DOMAIN cashMoves
     THEN /\ last' = [op |-> "deleteCashMove",
                      ret |-> [ok |-> FALSE, error |-> ErrNoMove]]
          /\ UNCHANGED cashMoves
     ELSE /\ cashMoves' = [i \in DOMAIN cashMoves \ {move_id} |-> cashMoves[i]]
          /\ last' = [op |-> "deleteCashMove", ret |-> [ok |-> TRUE, error |-> ""]]
  /\ UNCHANGED <<products, sales, cashDays, cashCloses, today, sess, stockMoves>>

(* The mismatch test with the force flag read as always set. *)
NeedsForceNever(diff, force) == FALSE

(* closeCashDay's "if diff != 0 and not bool(force)": the close is refused. *)
NeedsForce(diff, force) == ~IsNone(diff) /\ Val(diff) # 0 /\ ~force

(* carry_d taken from expected_cash_end whatever was counted. *)
CarryExpected(cash_counted_d, expected_cash_end) == expected_cash_end

(* closeCashDay's carry_d: the counted cash if given, else the expected. *)
Carry(cash_counted_d, expected_cash_end) ==
  IF IsNone(cash_counted_d) THEN expected_cash_end ELSE Val(cash_counted_d)

(* closeCashDay once the day is known to have no close: what it computes,   *)
(* the rows it leaves in cash_days and the CashClose it adds, if any.       *)
ClosePlan(days0, closes, ss, moves, day, cash_counted, force) ==
  LET cash_counted_d == IF IsNone(cash_counted) THEN None
                        ELSE Some(quantize(Val(cash_counted)))
      o == _get_opening_cash(_ensure_cash_day(days0, day), closes, day)
      t == totals_for_day(ss, day)
      withdrawals_total == CloseWithdrawalsTotal(moves, day)
      expected_cash_end == quantize(Dec(o.opening_cash + t.cash_total - withdrawals_total))
      diff == IF IsNone(cash_counted_d) THEN None
              ELSE Some(quantize(Dec(Val(cash_counted_d) - expected_cash_end)))
      carry_d == Carry(cash_counted_d, expected_cash_end)
  IN IF NeedsForce(diff, force)
     THEN [ret |-> [ok |-> FALSE, error |-> ErrMismatch,
                    expected_cash_end |-> expected_cash_end,
                    cash_diff |-> diff, needs_force |-> TRUE],
           days |-> o.days, row |-> None]
     ELSE [ret |-> [ok |-> TRUE, error |-> "",
                    expected_cash_end |-> expected_cash_end,
                    carry_to_next_day |-> carry_d,
                    cash_diff |-> diff, needs_force |-> FALSE],
           days |-> [_ensure_cash_day(o.days, _next_day(day)) EXCEPT ![_next_day(day)] =
                       [opening_cash |-> carry_d, opening_cash_manual |-> 0]],
           row |-> Some([day |-> day,
                         opening_cash |-> o.opening_cash,
                         withdrawals_total |-> withdrawals_total,
                         gross_total |-> t.gross_total,
                         cash_total |-> t.cash_total,
                         card_total |-> t.card_total,
                         nequi_total |-> t.nequi_total,
                         virtual_total |-> t.virtual_total,
                         expected_cash_end |-> expected_cash_end,
                         carry_to_next_day |-> carry_d,
                         cash_counted |-> cash_counted_d,
                         cash_diff |-> diff])]

(* closeCashDay's idempotency check left out. *)
AlreadyClosedNever(closes, day) == FALSE

(* closeCashDay's idempotency check: a close of the day exists. *)
AlreadyClosed(closes, day) == HasClose(closes, day)

(* session.add keeping the new close alone in the table. *)
AddCloseAlone(closes, row) == <<row>>

(* closeCashDay's session.add(row): a new cash_closes row after the stored  *)
(* ones, which are left as they are.                                        *)
AddClose(closes, row) == Append(closes, row)

(* WebviewBackend.closeCashDay; the carry_to_next_day argument is not read. *)
CloseCashDay(day, cash_counted, carry_to_next_day, force) ==
  /\ IF AlreadyClosed(cashCloses, day)
     THEN /\ last' = [op |-> "closeCashDay", day |-> day,
                      ret |-> [ok |-> FALSE, error |-> ErrClosed]]
          /\ UNCHANGED <<cashDays, cashCloses>>
     ELSE LET plan == ClosePlan(cashDays, cashCloses, sales, cashMoves, day,
                                cash_counted, force)
          IN /\ cashDays' = plan.days
             /\ cashCloses' = IF IsNone(plan.row) THEN cashCloses
                              ELSE AddClose(cashCloses, Val(plan.row))
             /\ last' = [op |-> "closeCashDay", day |-> day,
                         ret |-> plan.ret]
  /\ UNCHANGED <<products, sales, cashMoves, today, sess, stockMoves>>

----------------------------------------------------------------------------
(* Requests served one at a time: each handler runs from session_scope's    *)
(* entry to its commit with no other request in between.                    *)

Idle == [pc |-> "idle"]

(* WebviewBackend.checkout; cap bounds the sales table. *)
Checkout(lines, method, cash_received, cap) ==
  LET cart == BuildCart(lines)
      by_key == get_by_keys(products, CartKeys(cart))
      out == PosCheckout(by_key, cart, method, cash_received)
  IN /\ IsNone(out.sale) \/ Len(sales) < cap
     /\ products' = FlushRows(products, by_key, out.rows)
     /\ sales' = IF IsNone(out.sale) THEN sales
                 ELSE create_sale(sales, Val(out.sale), today)
     /\ last' = [op |-> "checkout", ret |-> out.res]
     /\ UNCHANGED <<cashDays, cashMoves, cashCloses, today, sess, stockMoves>>

(* The StockMove adjust_stock and set_stock add: product_key, kind, the     *)
(* delta applied and the stock it leaves.                                   *)
StockMove(product_key, kind, delta, stock_after) ==
  [product_key |-> product_key, kind |-> kind, delta |-> delta,
   stock_after |-> stock_after]

(* The newest keep rows of a table in insertion order. *)
NewestRows(rows, keep) ==
  IF Len(rows) <= keep THEN rows
  ELSE SubSeq(rows, Len(rows) - keep + 1, Len(rows))

(* WebviewBackend.restockProduct with ProductRepo.adjust_stock. stock_moves *)
(* is only ever appended to and no handler reads it: the model holds its    *)
(* newest keep rows.                                                        *)
RestockProduct(key, delta, keep) ==
  /\ IF delta = 0
     THEN /\ last' = [op |-> "restockProduct",
                      ret |-> [ok |-> FALSE, error |-> ErrQty]]
          /\ UNCHANGED <<products, stockMoves>>
     ELSE IF key \notin DOMAIN products
     THEN /\ last' = [op |-> "restockProduct",
                      ret |-> [ok |-> FALSE, error |-> ErrProduct]]
          /\ UNCHANGED <<products, stockMoves>>
     ELSE LET r == adjust_stock(products[key], delta)
          IN /\ r.new_stock <= MaxStock
             /\ products' = [products EXCEPT ![key].unidades = r.new_stock]
             /\ stockMoves' = NewestRows(Append(stockMoves,
                                                StockMove(key, "restock", r.d,
                                                          r.new_stock)), keep)
             /\ last' = [op |-> "restockProduct",
                         ret |-> [ok |-> TRUE, unidades |-> r.new_stock,
                                  clamped |-> r.d # delta]]
  /\ UNCHANGED <<sales, cashDays, cashMoves, cashCloses, today, sess>>

(* WebviewBackend.setProductStock with ProductRepo.set_stock; the model     *)
(* holds the newest keep rows of stock_moves.                               *)
SetProductStock(key, stock, keep) ==
  /\ IF key \notin DOMAIN products
     THEN /\ last' = [op |-> "setProductStock",
                      ret |-> [ok |-> FALSE, error |-> ErrProduct]]
          /\ UNCHANGED <<products, stockMoves>>
     ELSE LET r == set_stock(products[key], stock)
          IN /\ r.new_stock <= MaxStock
             /\ products' = [products EXCEPT ![key].unidades = r.new_stock]
             /\ stockMoves' = NewestRows(Append(stockMoves,
                                                StockMove(key, "adjust", r.d,
                                                          r.new_stock)), keep)
             /\ last' = [op |-> "setProductStock",
                         ret |-> [ok |-> TRUE, unidades |-> r.new_stock]]
  /\ UNCHANGED <<sales, cashDays, cashMoves, cashCloses, today, sess>>

----------------------------------------------------------------------------
(* The catalog: prices, names, imports, deletions *)

ErrPrice == "Precio invalido"
ErrName == "Nombre invalido"
ErrKey == "Producto invalido"
ErrConfirm == "Confirmacion invalida (escribe ELIMINAR)"

(* ProductRepo.set_price: the price held at two decimals, or the error. *)
set_price(prods, key, precio_final) ==
  LET price == quantize(precio_final)
  IN IF key = "" THEN [ok |-> FALSE, error |-> ErrKey, prods |-> prods]
     ELSE IF price < 0 THEN [ok |-> FALSE, error |-> ErrPrice, prods |-> prods]
     ELSE IF key \notin DOMAIN prods
       THEN [ok |-> FALSE, error |-> ErrProduct, prods |-> prods]
     ELSE [ok |-> TRUE, error |-> "", precio_final |-> price,
           prods |-> [prods EXCEPT ![key].precio_final = price]]

(* WebviewBackend.setProductPrice *)
SetProductPrice(key, precio_final) ==
  LET r == set_price(products, key, precio_final)
  IN /\ products' = r.prods
     /\ last' = [op |-> "setProductPrice",
                 ret |-> [x \in DOMAIN r \ {"prods"} |-> r[x]]]
     /\ UNCHANGED <<sales, cashDays, cashMoves, cashCloses, today, sess, stockMoves>>

(* ProductRepo.set_info *)
set_info(prods, key, producto, descripcion) ==
  IF key = "" THEN [ok |-> FALSE, error |-> ErrKey, prods |-> prods]
  ELSE IF producto = "" THEN [ok |-> FALSE, error |-> ErrName, prods |-> prods]
  ELSE IF key \notin DOMAIN prods
    THEN [ok |-> FALSE, error |-> ErrProduct, prods |-> prods]
  ELSE [ok |-> TRUE, error |-> "",
        prods |-> [prods EXCEPT ![key].producto = producto,
                                ![key].descripcion = descripcion]]

(* WebviewBackend.setProductInfo *)
SetProductInfo(key, producto, descripcion) ==
  LET r == set_info(products, key, producto, descripcion)
  IN /\ products' = r.prods
     /\ last' = [op |-> "setProductInfo", ret |-> [ok |-> r.ok, error |-> r.error]]
     /\ UNCHANGED <<sales, cashDays, cashMoves, cashCloses, today, sess, stockMoves>>

(* The deletion carried over to the sale lines of the product. *)
DeleteProductCascade(key, confirm_text) ==
  /\ key # "" /\ confirm_text \in {"ELIMINAR", "BORRAR"} /\ key \in DOMAIN products
  /\ products' = [k \in DOMAIN products \ {key} |-> products[k]]
  /\ sales' = [i \in DOMAIN sales |->
                 [sales[i] EXCEPT !.lines =
                    SelectSeq(@, LAMBDA ln : ln.product_key # key)]]
  /\ last' = [op |-> "deleteProduct", ret |-> [ok |-> TRUE, error |-> ""]]
  /\ UNCHANGED <<cashDays, cashMoves, cashCloses, today, sess, stockMoves>>

(* (text or "").strip() over the texts the requests carry. *)
strip(text) ==
  CASE text = " snacks " -> "snacks"
    [] text = " a" -> "a"
    [] OTHER -> text

(* ProductRepo.set_category: what the call returns and the rows it leaves.  *)
(* The function ends without a return statement once the category is       *)
(* assigned, so that call returns None.                                     *)
set_category(prods, product_key, category) ==
  LET k == strip(product_key)
  IN IF k = "" THEN [ret |-> Some(FALSE), prods |-> prods]
     ELSE IF k \notin DOMAIN prods THEN [ret |-> Some(FALSE), prods |-> prods]
     ELSE [ret |-> None, prods |-> [prods EXCEPT ![k].category = strip(category)]]

(* Python's bool() of set_category's result. *)
bool(x) == IF IsNone(x) THEN FALSE ELSE Val(x)

(* WebviewBackend.setProductCategory *)
SetProductCategory(key, category) ==
  LET r == set_category(products, key, category)
  IN /\ products' = r.prods
     /\ last' = [op |-> "setProductCategory", ret |-> [ok |-> bool(r.ret)]]
     /\ UNCHANGED <<sales, cashDays, cashMoves, cashCloses, today, sess, stockMoves>>

ErrNewName == "Nombre de producto invalido"

(* create_product's key: base, or the first of base - 2, base - 3, ... that *)
(* no product has.                                                          *)
RECURSIVE UniqueKey(_, _, _)
UniqueKey(prods, base, n) ==
  LET key == IF n = 1 THEN base ELSE base \o " - " \o ToString(n)
  IN IF key \in DOMAIN prods THEN UniqueKey(prods, base, n + 1) ELSE key

(* ProductRepo.create_product, for names and descriptions given trimmed:    *)
(* (ok, error, key, precio_final, products).                                *)
create_product(prods, producto, descripcion, unidades, precio_final, category) ==
  LET price == quantize(precio_final)
      stock == IF unidades < 0 THEN 0 ELSE unidades
      base == IF descripcion = "" THEN producto ELSE producto \o " - " \o descripcion
      key == UniqueKey(prods, base, 1)
  IN IF producto = "" THEN [ok |-> FALSE, error |-> ErrNewName, prods |-> prods]
     ELSE IF price < 0 THEN [ok |-> FALSE, error |-> ErrPrice, prods |-> prods]
     ELSE [ok |-> TRUE, error |-> "", key |-> key, precio_final |-> price,
           prods |-> prods @@ (key :> [producto |-> producto,
                                        descripcion |-> descripcion,
                                        unidades |-> stock,
                                        precio_final |-> price,
                                        category |-> category])]

(* WebviewBackend.createProduct; the product table holds at most rows rows. *)
CreateProduct(producto, descripcion, precio_final, unidades, category, rows) ==
  LET r == create_product(products, producto, descripcion, unidades, precio_final,
                          category)
  IN /\ Cardinality(DOMAIN r.prods) <= rows
     /\ products' = r.prods
     /\ last' = [op |-> "createProduct",
                 ret |-> IF r.ok THEN [ok |-> TRUE, key |-> r.key]
                         ELSE [ok |-> FALSE, error |-> r.error]]
     /\ UNCHANGED <<sales, cashDays, cashMoves, cashCloses, today, sess, stockMoves>>

(* (confirm_text or "").strip().upper() over the texts the requests carry. *)
strip_upper(confirm_text) ==
  CASE confirm_text = "borrar" -> "BORRAR"
    [] confirm_text = " Borrar " -> "BORRAR"
    [] confirm_text = "eliminar" -> "ELIMINAR"
    [] OTHER -> confirm_text

ErrReset == "Confirmacion invalida (escribe BORRAR)"

(* resetDatabase's update of products leaving the stock as it is. *)
ZeroStockNone(prods) == prods

(* resetDatabase's update(Product).values(unidades=0): every row's stock at *)
(* 0, the other columns as they are.                                        *)
ZeroStock(prods) == [k \in DOMAIN prods |-> [prods[k] EXCEPT !.unidades = 0]]

(* WebviewBackend.resetDatabase *)
ResetDatabase(confirm_text) ==
  /\ IF strip_upper(confirm_text) # "BORRAR"
     THEN /\ last' = [op |-> "resetDatabase", ret |-> [ok |-> FALSE, error |-> ErrReset]]
          /\ UNCHANGED <<products, sales, cashDays, cashMoves, cashCloses>>
     ELSE /\ sales' = <<>>
          /\ cashMoves' = NoRows
          /\ cashCloses' = <<>>
          /\ cashDays' = NoRows
          /\ products' = ZeroStock(products)
          /\ last' = [op |-> "resetDatabase", ret |-> [ok |-> TRUE, error |-> ""]]
  /\ UNCHANGED <<today, sess, stockMoves>>

(* WebviewBackend.deleteProduct with ProductRepo.delete_product *)
DeleteProduct(key, confirm_text) ==
  /\ IF key = ""
     THEN /\ last' = [op |-> "deleteProduct", ret |-> [ok |-> FALSE, error |-> ErrKey]]
          /\ UNCHANGED products
     ELSE IF strip_upper(confirm_text) \notin {"ELIMINAR", "BORRAR"}
     THEN /\ last' = [op |-> "deleteProduct",
                      ret |-> [ok |-> FALSE, error |-> ErrConfirm]]
          /\ UNCHANGED products
     ELSE IF key \notin DOMAIN products
     THEN /\ last' = [op |-> "deleteProduct",
                      ret |-> [ok |-> FALSE, error |-> ErrProduct]]
          /\ UNCHANGED products
     ELSE /\ products' = [k \in DOMAIN products \ {key} |-> products[k]]
          /\ last' = [op |-> "deleteProduct", ret |-> [ok |-> TRUE, error |-> ""]]
  /\ UNCHANGED <<sales, cashDays, cashMoves, cashCloses, today, sess, stockMoves>>

(* upsert_many's dedup: the last occurrence of key k in the list. *)
LastOf(L, k) == L[Max({i \in DOMAIN L : L[i].key = k})]

(* The UPSERT writing category on update as it does on insert. *)
KeptCategoryNone(prods, k) == ""

(* The category the UPSERT leaves: the row's own on update, "" on insert. *)
KeptCategory(prods, k) == IF k \in DOMAIN prods THEN prods[k].category ELSE ""

(* ProductRepo.upsert_many: the catalog after the import list L. *)
upsert_many(prods, L) ==
  LET keys == {L[i].key : i \in DOMAIN L}
  IN [k \in DOMAIN prods \cup keys |->
        IF k \in keys
        THEN LET p == LastOf(L, k)
             IN [producto |-> p.producto,
                 descripcion |-> p.descripcion,
                 unidades |-> p.unidades,
                 precio_final |-> quantize(p.precio_final),
                 category |-> KeptCategory(prods, k)]
        ELSE prods[k]]

(* The import of a product list: session_scope around upsert_many. *)
ImportProducts(L) ==
  /\ products' = upsert_many(products, L)
  /\ last' = [op |-> "upsert_many", list |-> L,
              ret |-> [ok |-> TRUE, count |-> Cardinality({L[i].key : i \in DOMAIN L})]]
  /\ UNCHANGED <<sales, cashDays, cashMoves, cashCloses, today, sess, stockMoves>>

----------------------------------------------------------------------------
(* Inputs *)

Ln(k, q) == [key |-> k, qty |-> q]

(* Request bodies: no line, one line, two keys, one key twice, an unknown   *)
(* key, a line of quantity 0.                                               *)
LinesInputs ==
  {<<>>, <<Ln("a", 1)>>, <<Ln("b", 2)>>, <<Ln("a", 1), Ln("b", 1)>>,
   <<Ln("a", 1), Ln("a", 1)>>, <<Ln("a", 1), Ln(GhostKey, 1)>>, <<Ln("b", 0)>>}

(* method and cash_received of the payment; 1.995 is received as 2.00. *)
PaymentInputs ==
  {<<"cash", None>>, <<"cash", Some(1995)>>, <<"card", None>>,
   <<"card", Some(5000)>>, <<"cheque", None>>}

DeltaInputs == {0 - 2, 0 - 1, 0, 1}
StockInputs == {0 - 1, 0, 2}

(* The catalog: two products in stock, prices in cents. *)
InitProducts ==
  [k \in Keys |->
     [producto |-> k,
      descripcion |-> "",
      unidades |-> IF k = "a" THEN 2 ELSE 1,
      precio_final |-> IF k = "a" THEN 100 ELSE 150,
      category |-> IF k = "a" THEN "bebidas" ELSE ""]]

InitStore ==
  /\ products = InitProducts
  /\ sales = <<>>
  /\ cashDays = NoRows
  /\ cashMoves = NoRows
  /\ cashCloses = <<>>
  /\ today = 1
  /\ sess = [t \in Sessions |-> Idle]
  /\ last = NoCall
  /\ stockMoves = <<>>

----------------------------------------------------------------------------
(* Stock and checkout requests, one at a time *)

StockCheckout ==
  \E lines \in LinesInputs, pay \in PaymentInputs :
    Checkout(lines, pay[1], pay[2], MaxSales)

StockRestock ==
  \E key \in Keys \cup {GhostKey}, delta \in DeltaInputs :
    RestockProduct(key, delta, 0)

StockSet ==
  \E key \in Keys \cup {GhostKey}, stock \in StockInputs :
    SetProductStock(key, stock, 0)

NextStock == StockCheckout \/ StockRestock \/ StockSet

SpecStock == InitStore /\ [][NextStock]_vars

----------------------------------------------------------------------------
(* The catalog edited and imported between sales *)

(* Prices in thousandths: 1.995 is held as 2.00, -10.00 is refused. *)
PriceInputs == {1995, 0 - 10000}

Imp(k, n, d, u, pr) ==
  [key |-> k, producto |-> n, descripcion |-> d, unidades |-> u, precio_final |-> pr]

(* Import lists: none, and a known key between two rows of a new key. *)
ImportInputs ==
  {<<>>,
   <<Imp("c", "c1", "", 2, 1000), Imp("a", "a2", "d2", 1, 1995),
     Imp("c", "c2", "x", 1, 1000)>>}

CatCheckout ==
  \E lines \in {<<Ln("a", 2)>>, <<Ln("a", 1), Ln("b", 1)>>} :
    Checkout(lines, "card", None, MaxSales + 1)

CatPrice == \E pr \in PriceInputs : SetProductPrice("a", pr)

CatInfo == \E n \in {"n", ""} : SetProductInfo("a", n, "d")

CatRestock == RestockProduct("a", 0 - 1, 0)

CatSetStock == SetProductStock("a", MaxStock, 0)

CatImport == \E L \in ImportInputs : ImportProducts(L)

CatDelete == \E confirm \in {"ELIMINAR", ""} : DeleteProduct("a", confirm)

(* Keys: a product's, the same with a leading blank, none, an unknown one. *)
CategoryKeyInputs == {"a", " a", "", GhostKey}
CategoryInputs == {" snacks ", ""}

CatCategory ==
  \E key \in CategoryKeyInputs, category \in CategoryInputs :
    SetProductCategory(key, category)

NextCatalog ==
  \/ CatCheckout \/ CatPrice \/ CatInfo \/ CatRestock
  \/ CatSetStock \/ CatImport \/ CatDelete \/ CatCategory

SpecCatalog == InitStore /\ [][NextCatalog]_vars

----------------------------------------------------------------------------
(* Cash-day requests and the sales they reconcile, one at a time *)

(* The days the cash panel is worked on: the current date and the next. *)
WorkDays == {today, _next_day(today)}

(* Amounts in thousandths: 1.005 is stored as 1.00 (half to even) and 0.004 *)
(* as 0.00.                                                                 *)
OpeningInputs == {1005, 2000}
WithdrawalInputs == {1000, 4}
CountedInputs == {None, Some(1000)}
CarryInputs == {None, Some(7000)}

CashCheckout ==
  \E pay \in {<<"cash", None>>, <<"card", None>>} :
    Checkout(<<Ln("a", 1)>>, pay[1], pay[2], MaxSales)

CashPanel == \E day \in WorkDays : GetCashPanel(day)

CashOpening == \E day \in WorkDays, amount \in OpeningInputs : SetOpeningCash(day, amount)

CashWithdrawal ==
  \E day \in WorkDays, amount \in WithdrawalInputs :
    AddCashWithdrawal(day, amount, MaxMoves)

CashClose ==
  \E day \in WorkDays, counted \in CountedInputs, carry \in CarryInputs,
     force \in BOOLEAN :
    CloseCashDay(day, counted, carry, force)

Next == CashCheckout \/ CashPanel \/ CashOpening \/ CashWithdrawal \/ CashClose

Spec == InitStore /\ [][Next]_vars

----------------------------------------------------------------------------
(* The cash day with its withdrawals deleted as well as added.              *)

(* Move ids: none, the ids the table can hold, and one it cannot. *)
MoveIdInputs == 0..(MaxMoves + 1)

MovesCheckout == Checkout(<<Ln("a", 1)>>, "cash", None, MaxSales)

MovesPanel == \E day \in WorkDays : GetCashPanel(day)

MovesOpening == SetOpeningCash(today, 2000)

(* Amounts in thousandths: 10.00, 0.004 (held as 0.00), 0 and -10.00. *)
MovesWithdrawalInputs == {1000, 4, 0, 0 - 1000}

MovesWithdrawal ==
  \E amount \in MovesWithdrawalInputs : AddCashWithdrawal(today, amount, MaxMoves)

MovesDelete == \E move_id \in MoveIdInputs : DeleteCashMove(move_id)

MovesClose ==
  \E day \in WorkDays, counted \in CountedInputs, force \in BOOLEAN :
    CloseCashDay(day, counted, None, force)

NextMoves ==
  \/ MovesCheckout \/ MovesPanel \/ MovesOpening
  \/ MovesWithdrawal \/ MovesDelete \/ MovesClose

SpecMoves == InitStore /\ [][NextMoves]_vars

----------------------------------------------------------------------------
(* Opening cash carried over several days: days closed in any order, with   *)
(* manual openings entered before the first close.                          *)

Days == 1..MaxDay

DaysPanel == \E day \in Days : GetCashPanel(day)

DaysOpeningInputs == {1005}

DaysOpening ==
  \E day \in Days, amount \in DaysOpeningInputs : SetOpeningCash(day, amount)

DaysClose ==
  \E day \in Days, counted \in CountedInputs, force \in BOOLEAN :
    CloseCashDay(day, counted, None, force)

NextDays == DaysPanel \/ DaysOpening \/ DaysClose

SpecDays == InitStore /\ [][NextDays]_vars

----------------------------------------------------------------------------
(* Stock adjusted and set with the stock_moves log kept, one sale between *)

NextLog ==
  \/ Checkout(<<Ln("a", 1)>>, "card", None, MaxSales)
  \/ /\ Len(stockMoves) < MaxLog
     /\ \E key \in Keys \cup {GhostKey}, delta \in DeltaInputs :
          RestockProduct(key, delta, MaxLog)
  \/ /\ Len(stockMoves) < MaxLog
     /\ \E key \in Keys \cup {GhostKey}, stock \in StockInputs :
          SetProductStock(key, stock, MaxLog)

SpecLog == InitStore /\ [][NextLog]_vars

----------------------------------------------------------------------------
(* Prices entered for stored products and for new ones *)

(* Prices in thousandths: 0, 0.004, 0.005, 0.015, 0.125, 1.994, 1.995,      *)
(* 2.005, 1999.995 and -0.005.                                              *)
PriceThousandths == {0, 4, 5, 15, 125, 1994, 1995, 2005, 1999995, 0 - 5}

NextPrice ==
  \/ \E key \in Keys, pr \in PriceThousandths : SetProductPrice(key, pr)
  \/ \E n \in {"n", ""}, pr \in PriceThousandths :
       CreateProduct(n, "", pr, 1, "", MaxProducts)

SpecPrice == InitStore /\ [][NextPrice]_vars

----------------------------------------------------------------------------
(* The cash book over several days: a cash sale and a withdrawal today,     *)
(* a manual opening of the last day, panels and forced closes of any day in *)
(* any order, and the database reset.                                       *)

BookCheckout == Checkout(<<Ln("a", 1)>>, "cash", None, MaxSales)

BookWithdrawal == AddCashWithdrawal(today, 1000, MaxMoves)

BookOpening == SetOpeningCash(MaxDay, 1005)

BookPanel == \E day \in Days : GetCashPanel(day)

BookClose == \E day \in Days : CloseCashDay(day, Some(1000), None, TRUE)

(* Confirmation texts: the word, the word in other cases and spacing, the   *)
(* word deleteProduct asks for, and none.                                   *)
ResetTokens == {"BORRAR", "borrar", " Borrar ", "ELIMINAR", ""}

BookReset == \E confirm_text \in ResetTokens : ResetDatabase(confirm_text)

NextBook ==
  \/ BookCheckout \/ BookWithdrawal \/ BookOpening \/ BookPanel \/ BookClose
  \/ BookReset

SpecBook == InitStore /\ [][NextBook]_vars

----------------------------------------------------------------------------
(* One day with as many withdrawals as getCashPanel lists, and one more.    *)

PanelCheckout ==
  \E method \in {"cash", "card"} :
    Checkout(<<Ln("a", 1)>>, method, None, MaxSales)

PanelWithdrawal == AddCashWithdrawal(today, 1000, PanelMovesLimit + 1)

PanelPanel == GetCashPanel(today)

PanelClose == CloseCashDay(today, None, None, FALSE)

NextPanel == PanelCheckout \/ PanelWithdrawal \/ PanelPanel \/ PanelClose

SpecPanel == InitStore /\ [][NextPanel]_vars

----------------------------------------------------------------------------
(* Requests served concurrently, one session per request thread. A session  *)
(* reads when its handler queries and writes when session_scope commits;    *)
(* the engine takes no lock on read and runs no serializable transaction,   *)
(* so other sessions may commit in between.                                 *)

(* WebviewBackend.checkout up to PosService's get_by_keys: the session is   *)
(* opened and loads the rows of the cart.                                   *)
CheckoutLoad(t, lines, method, cash_received) ==
  /\ sess[t].pc = "idle"
  /\ sess' = [sess EXCEPT ![t] =
                [pc |-> "checkout", lines |-> lines, method |-> method,
                 cash_received |-> cash_received,
                 by_key |-> get_by_keys(products, CartKeys(BuildCart(lines)))]]
  /\ UNCHANGED <<products, sales, cashDays, cashMoves, cashCloses, today, last, stockMoves>>

(* The rest of PosService.checkout on the loaded rows, create_sale's flush  *)
(* and session_scope's commit.                                              *)
CheckoutCommit(t) ==
  /\ sess[t].pc = "checkout"
  /\ LET s == sess[t]
         out == PosCheckout(s.by_key, BuildCart(s.lines), s.method, s.cash_received)
     IN /\ products' = FlushRows(products, s.by_key, out.rows)
        /\ sales' = IF IsNone(out.sale) THEN sales
                    ELSE create_sale(sales, Val(out.sale), today)
        /\ sess' = [sess EXCEPT ![t] =
                      [pc |-> "done", op |-> "checkout", lines |-> s.lines,
                       method |-> s.method, ret |-> out.res]]
  /\ UNCHANGED <<cashDays, cashMoves, cashCloses, today, last, stockMoves>>

(* WebviewBackend.closeCashDay up to its idempotency check: the session is  *)
(* opened and looks for a close of the day.                                 *)
CloseCheck(t, day, cash_counted, force) ==
  /\ sess[t].pc = "idle"
  /\ sess' = [sess EXCEPT ![t] =
                [pc |-> "close", day |-> day, cash_counted |-> cash_counted,
                 force |-> force, closed |-> AlreadyClosed(cashCloses, day)]]
  /\ UNCHANGED <<products, sales, cashDays, cashMoves, cashCloses, today, last, stockMoves>>

(* The rest of closeCashDay: the early return if the check found a close,   *)
(* else the queries, the flushes and session_scope's commit.                *)
CloseCommit(t) ==
  /\ sess[t].pc = "close"
  /\ LET s == sess[t]
     IN IF s.closed
        THEN /\ sess' = [sess EXCEPT ![t] =
                           [pc |-> "done", op |-> "closeCashDay", day |-> s.day,
                            ret |-> [ok |-> FALSE, error |-> ErrClosed]]]
             /\ UNCHANGED <<cashDays, cashCloses>>
        ELSE LET plan == ClosePlan(cashDays, cashCloses, sales, cashMoves, s.day,
                                   s.cash_counted, s.force)
             IN /\ cashDays' = plan.days
                /\ cashCloses' = IF IsNone(plan.row) THEN cashCloses
                                 ELSE AddClose(cashCloses, Val(plan.row))
                /\ sess' = [sess EXCEPT ![t] =
                              [pc |-> "done", op |-> "closeCashDay", day |-> s.day,
                               ret |-> plan.ret]]
  /\ UNCHANGED <<products, sales, cashMoves, today, last, stockMoves>>

(* Carts of concurrent requests: the last unit of "b", alone or with "a",   *)
(* more than is in stock, an unknown key.                                   *)
ConcLinesInputs ==
  {<<Ln("b", 1)>>, <<Ln("a", 1), Ln("b", 1)>>, <<Ln("b", 2)>>, <<Ln(GhostKey, 1)>>}

ConcCheckoutLoad ==
  \E t \in Sessions, lines \in ConcLinesInputs, pay \in PaymentInputs :
    CheckoutLoad(t, lines, pay[1], pay[2])

ConcCheckoutCommit == \E t \in Sessions : CheckoutCommit(t)

ConcCloseCheck == \E t \in Sessions : CloseCheck(t, today, None, FALSE)

ConcCloseCommit == \E t \in Sessions : CloseCommit(t)

NextConc ==
  ConcCheckoutLoad \/ ConcCheckoutCommit \/ ConcCloseCheck \/ ConcCloseCommit

SpecConc == InitStore /\ [][NextConc]_vars

----------------------------------------------------------------------------
(* A withdrawal and a close of the same day served concurrently *)

(* WebviewBackend.addCashWithdrawal up to its look for a close of the day:  *)
(* the amount is valid and the session is opened.                           *)
WithdrawCheck(t, day, amount) ==
  /\ sess[t].pc = "idle"
  /\ ~NotPositive(quantize(amount))
  /\ sess' = [sess EXCEPT ![t] =
                [pc |-> "withdraw", day |-> day, v |-> quantize(amount),
                 closed |-> HasClose(cashCloses, day)]]
  /\ UNCHANGED <<products, sales, cashDays, cashMoves, cashCloses, today, last, stockMoves>>

(* The rest of addCashWithdrawal: the early return if a close was found,    *)
(* else the day's row, the flush of the CashMove and session_scope's        *)
(* commit.                                                                  *)
WithdrawCommit(t) ==
  /\ sess[t].pc = "withdraw"
  /\ LET s == sess[t]
         id == IF DOMAIN cashMoves = {} THEN 1 ELSE Max(DOMAIN cashMoves) + 1
     IN IF s.closed
        THEN /\ sess' = [sess EXCEPT ![t] =
                           [pc |-> "done", op |-> "addCashWithdrawal", day |-> s.day,
                            ret |-> [ok |-> FALSE, error |-> ErrDayClosed]]]
             /\ UNCHANGED <<cashDays, cashMoves>>
        ELSE /\ cashDays' = _ensure_cash_day(cashDays, s.day)
             /\ cashMoves' = cashMoves @@
                               (id :> [day |-> s.day, kind |-> "withdrawal",
                                       amount |-> s.v])
             /\ sess' = [sess EXCEPT ![t] =
                           [pc |-> "done", op |-> "addCashWithdrawal", day |-> s.day,
                            ret |-> [ok |-> TRUE, id |-> id]]]
  /\ UNCHANGED <<products, sales, cashCloses, today, last, stockMoves>>

NextCashRace ==
  \/ \E t \in Sessions, day \in WorkDays, amount \in {1000, 2000} :
       WithdrawCheck(t, day, amount)
  \/ \E t \in Sessions : WithdrawCommit(t)
  \/ \E t \in Sessions, day \in WorkDays, counted \in CountedInputs :
       CloseCheck(t, day, counted, TRUE)
  \/ \E t \in Sessions : CloseCommit(t)

SpecCashRace == InitStore /\ [][NextCashRace]_vars

----------------------------------------------------------------------------
(* A restock and a checkout of the same product served concurrently *)

(* WebviewBackend.restockProduct up to adjust_stock's select: the quantity  *)
(* is valid, the session is opened and loads the product's row.             *)
RestockLoad(t, key, delta) ==
  /\ sess[t].pc = "idle"
  /\ delta # 0
  /\ sess' = [sess EXCEPT ![t] =
                [pc |-> "restock", key |-> key, delta |-> delta,
                 by_key |-> get_by_keys(products, {key})]]
  /\ UNCHANGED <<products, sales, cashDays, cashMoves, cashCloses, today, last, stockMoves>>

(* The rest of adjust_stock on the loaded row, the flush and                *)
(* session_scope's commit.                                                  *)
RestockCommit(t) ==
  /\ sess[t].pc = "restock"
  /\ LET s == sess[t]
     IN IF s.key \notin DOMAIN s.by_key
        THEN /\ sess' = [sess EXCEPT ![t] =
                           [pc |-> "done", op |-> "restockProduct", key |-> s.key,
                            delta |-> s.delta,
                            ret |-> [ok |-> FALSE, error |-> ErrProduct]]]
             /\ UNCHANGED <<products, stockMoves>>
        ELSE LET r == adjust_stock(s.by_key[s.key], s.delta)
                 rows == [s.by_key EXCEPT ![s.key].unidades = r.new_stock]
             IN /\ products' = FlushRows(products, s.by_key, rows)
                /\ stockMoves' = Append(stockMoves,
                                        StockMove(s.key, "restock", r.d, r.new_stock))
                /\ sess' = [sess EXCEPT ![t] =
                              [pc |-> "done", op |-> "restockProduct", key |-> s.key,
                               delta |-> s.delta,
                               ret |-> [ok |-> TRUE, unidades |-> r.new_stock]]]
  /\ UNCHANGED <<sales, cashDays, cashMoves, cashCloses, today, last>>

NextStockRace ==
  \/ \E t \in Sessions, key \in {"a", GhostKey}, delta \in {1, 2} :
       RestockLoad(t, key, delta)
  \/ \E t \in Sessions : RestockCommit(t)
  \/ \E t \in Sessions, lines \in {<<Ln("a", 1)>>, <<Ln("a", 2)>>},
        method \in {"card", "nequi"} :
       CheckoutLoad(t, lines, method, None)
  \/ \E t \in Sessions : CheckoutCommit(t)

SpecStockRace == InitStore /\ [][NextStockRace]_vars

----------------------------------------------------------------------------
(* Claims on stock and checkout, requests served one at a time *)

RECURSIVE SumSeq(_)
SumSeq(q) == IF q = <<>> THEN 0 ELSE Head(q) + SumSeq(Tail(q))

(* cents is the amount x (thousandths) held to two decimals: x itself when  *)
(* x has two decimals, one of the two nearest such values otherwise.        *)
IsAmount(cents, x) ==
  /\ x % 10 = 0 => cents * 10 = x
  /\ cents * 10 - x < 10
  /\ x - cents * 10 < 10

(* What the cart of a request costs at the catalog's prices. *)
RECURSIVE CartTotal(_, _)
CartTotal(prods, cart) ==
  IF cart = <<>> THEN 0
  ELSE prods[Head(cart).key].precio_final * Head(cart).qty + CartTotal(prods, Tail(cart))

(* A request every validation before the cash check accepts, paid in cash   *)
(* with less cash than its total.                                           *)
CashShort(lines, pay) ==
  LET cart == BuildCart(lines)
  IN /\ cart # <<>>
     /\ pay[1] = "cash" /\ ~IsNone(pay[2])
     /\ \A i \in DOMAIN cart :
          /\ cart[i].key \in DOMAIN products
          /\ cart[i].qty <= products[cart[i].key].unidades
     /\ money(Val(pay[2])) < CartTotal(products, cart)

(* C2: a cash checkout whose cash_received is less than the total fails     *)
(* with InsufficientCash, and when its transaction has ended every stock    *)
(* is what it was before the call and no Sale has been recorded.            *)
C2_InsufficientCashAborts ==
  [][\A lines \in LinesInputs, pay \in PaymentInputs :
       (Checkout(lines, pay[1], pay[2], MaxSales) /\ CashShort(lines, pay))
         => /\ last'.ret.error = ErrCash
            /\ products' = products
            /\ sales' = sales]_vars

(* C3: after every adjustStock, setStock and checkout, in any order, every  *)
(* product's stock is >= 0.                                                 *)
C3_StockNeverNegative == \A k \in DOMAIN products : products[k].unidades >= 0

(* A negative adjustment was clamped after a sale was made. *)
C3_Witness ==
  /\ last.op = "restockProduct" /\ last.ret.ok /\ last.ret.clamped
  /\ sales # <<>>
  /\ \E k \in DOMAIN products : products[k].unidades = 0

(* C29: adjustStock(key, delta) on an existing product sets stock to        *)
(* max(0, old + delta), returns that value, and appends exactly one         *)
(* StockMove whose delta is new stock - old stock (so it differs from the   *)
(* requested delta exactly when clamping occurred) and whose stock_after is *)
(* the new stock; on an unknown key it fails with NotFound and changes      *)
(* nothing.                                                                 *)
C29_AdjustStockLogged ==
  [][last'.op = "restockProduct" =>
       \A key \in Keys \cup {GhostKey}, delta \in DeltaInputs \ {0} :
         (Len(stockMoves) < MaxLog /\ RestockProduct(key, delta, MaxLog))
           => IF key \in DOMAIN products
              THEN LET old == products[key].unidades
                       new == IF old + delta > 0 THEN old + delta ELSE 0
                       move == stockMoves'[Len(stockMoves')]
                   IN /\ last'.ret.ok /\ last'.ret.unidades = new
                      /\ products' = [products EXCEPT ![key].unidades = new]
                      /\ Len(stockMoves') = Len(stockMoves) + 1
                      /\ SubSeq(stockMoves', 1, Len(stockMoves)) = stockMoves
                      /\ move.product_key = key
                      /\ move.delta = new - old
                      /\ move.stock_after = new
                      /\ move.delta # delta <=> old + delta < 0
              ELSE /\ ~last'.ret.ok /\ last'.ret.error = ErrProduct
                   /\ products' = products
                   /\ stockMoves' = stockMoves]_vars

(* After a sale left one unit of a, an adjustment of -2 was clamped: the    *)
(* second StockMove records -1 and stock 0.                                 *)
C29_Witness ==
  /\ last.op = "restockProduct" /\ last.ret.ok /\ last.ret.unidades = 0
  /\ sales # <<>>
  /\ Len(stockMoves) = 2
  /\ stockMoves[2] = StockMove("a", "restock", 0 - 1, 0)

(* The units of key k a request asks for, over its lines of positive qty. *)
RECURSIVE Requested(_, _)
Requested(lines, k) ==
  IF lines = <<>> THEN 0
  ELSE (IF Head(lines).key = k /\ Head(lines).qty > 0 THEN Head(lines).qty ELSE 0)
       + Requested(Tail(lines), k)

RequestedKeys(lines) ==
  {lines[i].key : i \in {j \in DOMAIN lines : lines[j].qty > 0}}

(* The products a request asks more of than is in stock. *)
ShortKeys(lines) ==
  {k \in RequestedKeys(lines) \cap DOMAIN products :
     Requested(lines, k) > products[k].unidades}

(* The shortfalls the response should list. *)
Shortfalls(lines) ==
  {[key |-> k, producto |-> products[k].producto,
    available |-> products[k].unidades, requested |-> Requested(lines, k)] :
     k \in ShortKeys(lines)}

ValidMethod(pay) == pay[1] \in {"cash", "card", "nequi", "virtual"}

(* What C13 says of the response and the store. *)
StockRefused(lines) ==
  /\ ~last'.ret.ok /\ last'.ret.error = ErrStock
  /\ {last'.ret.details[i] : i \in DOMAIN last'.ret.details} = Shortfalls(lines)
  /\ Len(last'.ret.details) = Cardinality(Shortfalls(lines))
  /\ products' = products
  /\ sales' = sales

(* C13 as stated: every checkout with a line that requests more than the    *)
(* product's stock fails with InsufficientStock, lists exactly the short    *)
(* lines and changes no stock and records no Sale.                          *)
C13_AnyShortLineRefused ==
  [][last'.op = "checkout" =>
     \A lines \in LinesInputs :
       ShortKeys(lines) # {} =>
         \A pay \in PaymentInputs :
           Checkout(lines, pay[1], pay[2], MaxSales) => StockRefused(lines)]_vars

(* C13, amended: a checkout with a valid payment method whose keys all      *)
(* exist, with a line that requests more than the product's stock, fails    *)
(* with InsufficientStock, lists exactly the short lines (key, name,        *)
(* available, requested) and changes no stock and records no Sale.          *)
C13_ShortLineRefused ==
  [][last'.op = "checkout" =>
     \A lines \in LinesInputs :
       (RequestedKeys(lines) \subseteq DOMAIN products /\ ShortKeys(lines) # {}) =>
         \A pay \in PaymentInputs :
           (ValidMethod(pay) /\ Checkout(lines, pay[1], pay[2], MaxSales))
             => StockRefused(lines)]_vars

(* A cart of "a" and "b" was refused for "b" alone while "a" was in stock. *)
C13_Witness ==
  /\ last.op = "checkout" /\ ~last.ret.ok /\ last.ret.error = ErrStock
  /\ last.ret.details =
       <<[key |-> "b", producto |-> products["b"].producto,
          available |-> 0, requested |-> 1]>>
  /\ products["a"].unidades >= 1

(* What C14 says of the response and the store. *)
NotFoundRefused(lines) ==
  /\ ~last'.ret.ok /\ last'.ret.error = ErrNotFound
  /\ {last'.ret.missing[i] : i \in DOMAIN last'.ret.missing}
       = RequestedKeys(lines) \ DOMAIN products
  /\ Len(last'.ret.missing) = Cardinality(RequestedKeys(lines) \ DOMAIN products)
  /\ products' = products
  /\ sales' = sales

(* C14 as stated: every checkout whose cart has a key that does not exist   *)
(* fails with ProductsNotFound listing the missing keys, changes no stock   *)
(* and records no Sale.                                                     *)
C14_AnyMissingKeyRefused ==
  [][last'.op = "checkout" =>
     \A lines \in LinesInputs :
       ~(RequestedKeys(lines) \subseteq DOMAIN products) =>
         \A pay \in PaymentInputs :
           Checkout(lines, pay[1], pay[2], MaxSales) => NotFoundRefused(lines)]_vars

(* C14, amended: a checkout with a valid payment method whose cart has a    *)
(* key that does not exist fails with ProductsNotFound listing the missing  *)
(* keys, changes no stock and records no Sale, even for the keys that       *)
(* exist.                                                                   *)
C14_MissingKeyRefused ==
  [][last'.op = "checkout" =>
     \A lines \in LinesInputs :
       ~(RequestedKeys(lines) \subseteq DOMAIN products) =>
         \A pay \in PaymentInputs :
           (ValidMethod(pay) /\ Checkout(lines, pay[1], pay[2], MaxSales))
             => NotFoundRefused(lines)]_vars

(* A cart of "a" and an unknown key was refused for the unknown key while   *)
(* "a" was in stock.                                                        *)
C14_Witness ==
  /\ last.op = "checkout" /\ ~last.ret.ok /\ last.ret.error = ErrNotFound
  /\ last.ret.missing = <<GhostKey>>
  /\ products["a"].unidades >= 1

NewSale == sales'[Len(sales')]

(* C15: a successful checkout decrements the stock of each product of the   *)
(* cart by its requested qty, changes no other product, records one Sale    *)
(* with one line per cart key; paid in cash with cash_received >= total it  *)
(* returns change_given = cash_received - total >= 0, cash_received taken   *)
(* at two decimals; not paid in cash, it records cash_received and          *)
(* change_given as absent.                                                  *)
C15_CheckoutEffects ==
  [][(last'.op = "checkout" /\ last'.ret.ok) =>
     \A lines \in LinesInputs, pay \in PaymentInputs :
       Checkout(lines, pay[1], pay[2], MaxSales)
         => /\ DOMAIN products' = DOMAIN products
            /\ \A k \in DOMAIN products :
                 products'[k] =
                   [products[k] EXCEPT !.unidades = @ - Requested(lines, k)]
            /\ Len(sales') = Len(sales) + 1
            /\ \A i \in DOMAIN sales : sales'[i] = sales[i]
            /\ Len(NewSale.lines) = Cardinality(RequestedKeys(lines))
            /\ {NewSale.lines[i].product_key : i \in DOMAIN NewSale.lines}
                 = RequestedKeys(lines)
            /\ \A i \in DOMAIN NewSale.lines :
                 NewSale.lines[i].qty = Requested(lines, NewSale.lines[i].product_key)
            /\ (pay[1] = "cash" /\ ~IsNone(pay[2]))
                 => /\ NewSale.cash_received = Some(money(Val(pay[2])))
                    /\ last'.ret.change_given =
                         Some(Val(NewSale.cash_received) - NewSale.total)
                    /\ Val(pay[2]) >= Dec(NewSale.total)
                         => last'.ret.change_given =
                              Some(money(Val(pay[2]) - Dec(NewSale.total)))
                    /\ Val(last'.ret.change_given) >= 0
                    /\ NewSale.change_given = last'.ret.change_given
            /\ pay[1] # "cash"
                 => /\ IsNone(NewSale.cash_received) /\ IsNone(NewSale.change_given)
                    /\ IsNone(last'.ret.cash_received)
                    /\ IsNone(last'.ret.change_given)]_vars

(* Two request lines of one key were sold as one line of 2 units, paid in   *)
(* cash with the exact amount.                                              *)
C15_Witness ==
  /\ last.op = "checkout" /\ last.ret.ok
  /\ last.ret.change_given = Some(0)
  /\ sales # <<>>
  /\ Len(sales[Len(sales)].lines) = 1
  /\ sales[Len(sales)].lines[1].qty = 2
  /\ products["a"].unidades = InitProducts["a"].unidades - 2

(* C16: every recorded Sale has total = the sum of its lines' line_total,   *)
(* each line_total = unit_price * quantity, and unit_price is the product's *)
(* price at the moment of the checkout.                                     *)
C16_SaleTotals ==
  /\ [](\A i \in DOMAIN sales :
          /\ sales[i].total =
               SumSeq([j \in DOMAIN sales[i].lines |-> sales[i].lines[j].line_total])
          /\ \A j \in DOMAIN sales[i].lines :
               sales[i].lines[j].line_total =
                 sales[i].lines[j].unit_price * sales[i].lines[j].qty)
  /\ [][(last'.op = "checkout" /\ last'.ret.ok /\ sales' # sales) =>
          \A j \in DOMAIN NewSale.lines :
            NewSale.lines[j].unit_price =
              products[NewSale.lines[j].product_key].precio_final]_vars

(* Two units were sold at a price set after the catalog was created. *)
C16_Witness ==
  \E i \in DOMAIN sales :
    /\ Len(sales[i].lines) = 1
    /\ sales[i].lines[1].qty = 2
    /\ sales[i].lines[1].unit_price = 200
    /\ sales[i].total = 400

(* C17: once a Sale is recorded, no later setPrice, setInfo, adjustStock,   *)
(* setStock, upsertMany, deleteProduct or checkout changes its total or any *)
(* field of its lines.                                                      *)
C17_SalesFrozen ==
  [][\A i \in DOMAIN sales :
       /\ i \in DOMAIN sales'
       /\ sales'[i].total = sales[i].total
       /\ sales'[i].lines = sales[i].lines]_vars

(* A sold product was deleted from the catalog and its sale line is kept    *)
(* as sold.                                                                 *)
C17_Witness ==
  /\ last.op = "deleteProduct" /\ last.ret.ok
  /\ "a" \notin DOMAIN products
  /\ \E i \in DOMAIN sales :
       \E j \in DOMAIN sales[i].lines :
         /\ sales[i].lines[j].product_key = "a"
         /\ sales[i].lines[j].producto = "n"
         /\ sales[i].total = SumSeq([x \in DOMAIN sales[i].lines |->
                                       sales[i].lines[x].line_total])

(* C18: upsertMany(L) applied twice leaves the products it leaves applied   *)
(* once, for lists with repeated keys too, and after either call every      *)
(* product that existed before has the category it had.                     *)
C18_UpsertIdempotent ==
  [][last'.op = "upsert_many" =>
     \A L \in ImportInputs :
       ImportProducts(L)
         => /\ \A k \in DOMAIN products :
                 k \in DOMAIN products' /\ products'[k].category = products[k].category
            /\ upsert_many(products', L) = products'
            /\ (last.op = "upsert_many" /\ last.list = L) => products' = products
            /\ \A k \in {L[i].key : i \in DOMAIN L} :
                 \E i \in DOMAIN L :
                   /\ L[i].key = k
                   /\ \A j \in DOMAIN L : L[j].key = k => j <= i
                   /\ products'[k].producto = L[i].producto
                   /\ products'[k].descripcion = L[i].descripcion
                   /\ products'[k].unidades = L[i].unidades
                   /\ IsAmount(products'[k].precio_final, L[i].precio_final)]_vars

(* A list was imported over a product that has a category, and a new key    *)
(* the list gives twice holds its last row.                                 *)
C18_Witness ==
  /\ last.op = "upsert_many" /\ last.list # <<>>
  /\ "a" \in DOMAIN products /\ products["a"].category = "bebidas"
  /\ products["a"].producto = "a2"
  /\ "c" \in DOMAIN products /\ products["c"].producto = "c2"

(* The category text without the blanks around it. *)
Trimmed(category) == IF category = " snacks " THEN "snacks" ELSE category

(* C30: setCategory(key, category) returns false exactly when the key is    *)
(* empty or no product has that key, changing nothing; for an existing      *)
(* product it stores the trimmed category and returns true, so the caller's *)
(* ok flag is true after a successful update.                               *)
C30_CategoryFlag ==
  [][last'.op = "setProductCategory" =>
       \A key \in {"a", "", GhostKey}, category \in CategoryInputs :
         SetProductCategory(key, category)
           => /\ ~last'.ret.ok <=> (key = "" \/ key \notin DOMAIN products)
              /\ ~last'.ret.ok => products' = products
              /\ last'.ret.ok => products'[key].category = Trimmed(category)]_vars

(* Round-half-up to cents of a non-negative amount in thousandths: a third  *)
(* decimal digit of 5 or more rounds the cents up.                          *)
HalfUp(x) == (x \div 10) + (IF x % 10 >= 5 THEN 1 ELSE 0)

(* C23: every price stored and returned by setPrice and createProduct is    *)
(* the input rounded to 2 decimals with round-half-up, the result money     *)
(* gives: for every non-negative input in thousandths a third decimal digit *)
(* of 5 or more rounds the cents up.                                        *)
C23_PricesHalfUp ==
  [][\A pr \in {x \in PriceThousandths : x >= 0} :
       /\ money(pr) = HalfUp(pr)
       /\ \A key \in Keys :
            (SetProductPrice(key, pr) /\ last'.ret.ok)
              => /\ last'.ret.precio_final = HalfUp(pr)
                 /\ products'[key].precio_final = HalfUp(pr)
       /\ \A n \in {"n", ""} :
            (CreateProduct(n, "", pr, 1, "", MaxProducts) /\ last'.ret.ok)
              => products'[last'.ret.key].precio_final = HalfUp(pr)]_vars

----------------------------------------------------------------------------
(* Claims on the cash day, requests served one at a time *)

ClosesOf(closes, day) == {i \in DOMAIN closes : closes[i].day = day}

(* The close of the greatest day before day. *)
PriorClose(closes, day) ==
  closes[CHOOSE i \in DOMAIN closes :
           /\ closes[i].day < day
           /\ \A j \in DOMAIN closes : closes[j].day < day => closes[j].day <= closes[i].day]

(* The opening balance the derivation rule gives the day. *)
OpeningOf(day) ==
  IF \E i \in DOMAIN cashCloses : cashCloses[i].day < day
  THEN PriorClose(cashCloses, day).carry_to_next_day
  ELSE IF day \in DOMAIN cashDays /\ cashDays[day].opening_cash_manual = 1
  THEN cashDays[day].opening_cash
  ELSE 0

(* The day's cash sales. *)
CashSalesOf(day) ==
  SumSeq([i \in DOMAIN sales |->
            IF sales[i].day = day /\ sales[i].payment_method = "cash"
            THEN sales[i].total ELSE 0])

(* All the withdrawals recorded for the day. *)
WithdrawnOf(day) ==
  LET S == {i \in DOMAIN cashMoves : cashMoves[i].day = day}
  IN SumOver([i \in S |-> cashMoves[i].amount], S)

(* expected_cash_end = opening + cash_sales_total - withdrawals_total *)
ExpectedOf(day) == OpeningOf(day) + CashSalesOf(day) - WithdrawnOf(day)

(* The counted cash as the handler reads it, in cents. *)
Counted(counted) == quantize(Val(counted))

NewClose == cashCloses'[Len(cashCloses')]

(* C4: closeCashDay for a day that has a CashClose fails with AlreadyClosed, *)
(* with force and with any cashCounted, leaves the CashClose rows as they   *)
(* are and adds no second row for the day.                                  *)
C4_SecondCloseRejected ==
  [][\A day \in WorkDays, counted \in CountedInputs, carry \in CarryInputs,
        force \in BOOLEAN :
       (HasClose(cashCloses, day) /\ CloseCashDay(day, counted, carry, force))
         => /\ ~last'.ret.ok
            /\ last'.ret.error = ErrClosed
            /\ cashCloses' = cashCloses
            /\ Cardinality(ClosesOf(cashCloses', day)) = 1]_vars

(* A close was refused for a day that is closed. *)
C4_Witness ==
  /\ last.op = "closeCashDay"
  /\ ~last.ret.ok /\ last.ret.error = ErrClosed
  /\ Cardinality(ClosesOf(cashCloses, last.day)) = 1

(* C6: when a CashClose exists for a day before d, getCashPanel(d) returns  *)
(* the carry_to_next_day of the close of the greatest such day, source      *)
(* prev_close, whatever the CashDay row of d held, and leaves that row      *)
(* holding the derived value, not manual.                                   *)
C6_OpeningFromPriorClose ==
  [][\A day \in Days :
       ((\E i \in DOMAIN cashCloses : cashCloses[i].day < day) /\ GetCashPanel(day))
         => /\ last'.ret.opening_cash = PriorClose(cashCloses, day).carry_to_next_day
            /\ last'.ret.opening_source = "prev_close"
            /\ cashDays'[day] =
                 [opening_cash |-> PriorClose(cashCloses, day).carry_to_next_day,
                  opening_cash_manual |-> 0]]_vars

(* The panel of a day was read after two earlier days were closed, the      *)
(* later of them first, with different carries.                             *)
C6_Witness ==
  /\ last.op = "getCashPanel" /\ last.ret.opening_source = "prev_close"
  /\ \E i, j \in DOMAIN cashCloses :
       /\ i < j
       /\ cashCloses[j].day < cashCloses[i].day /\ cashCloses[i].day < last.day
       /\ cashCloses[i].carry_to_next_day # cashCloses[j].carry_to_next_day
       /\ last.ret.opening_cash = cashCloses[i].carry_to_next_day

(* C8: closeCashDay without force on an open day, with a cashCounted that   *)
(* differs from expected_cash_end, returns CashMismatch carrying            *)
(* expected_cash_end and diff = cashCounted - expected_cash_end and inserts *)
(* no CashClose: the day stays open.                                        *)
C8_MismatchRefused ==
  [][\A day \in WorkDays, counted \in CountedInputs \ {None}, carry \in CarryInputs :
       (/\ ~HasClose(cashCloses, day)
        /\ Counted(counted) # ExpectedOf(day)
        /\ CloseCashDay(day, counted, carry, FALSE))
         => /\ ~last'.ret.ok
            /\ last'.ret.error = ErrMismatch
            /\ last'.ret.expected_cash_end = ExpectedOf(day)
            /\ last'.ret.cash_diff = Some(Counted(counted) - ExpectedOf(day))
            /\ cashCloses' = cashCloses
            /\ ~HasClose(cashCloses', day)]_vars

(* A close was refused for a mismatch on a day with a withdrawal. *)
C8_Witness ==
  /\ last.op = "closeCashDay"
  /\ ~last.ret.ok /\ last.ret.error = ErrMismatch
  /\ Val(last.ret.cash_diff) # 0
  /\ ~HasClose(cashCloses, last.day)
  /\ \E i \in DOMAIN cashMoves : cashMoves[i].day = last.day

(* C9: a successful closeCashDay records carry_to_next_day = cashCounted    *)
(* when it was given and expected_cash_end otherwise, whatever the          *)
(* carryToNextDay argument; a close refused for mismatch and retried with   *)
(* the same cashCounted and force succeeds with cash_diff = cashCounted -   *)
(* expected_cash_end and carries cashCounted; a close with cashCounted =    *)
(* expected_cash_end succeeds without force with cash_diff = 0.             *)
C9_CarryForward ==
  [][last'.op = "closeCashDay" =>
     \A day \in WorkDays, counted \in CountedInputs, carry \in CarryInputs,
        force \in BOOLEAN :
       (~HasClose(cashCloses, day) /\ CloseCashDay(day, counted, carry, force))
         => /\ last'.ret.ok =>
                 /\ Len(cashCloses') = Len(cashCloses) + 1
                 /\ NewClose.day = day
                 /\ NewClose.expected_cash_end = ExpectedOf(day)
                 /\ NewClose.carry_to_next_day =
                      IF IsNone(counted) THEN ExpectedOf(day) ELSE Counted(counted)
                 /\ NewClose.cash_diff =
                      IF IsNone(counted) THEN None
                      ELSE Some(Counted(counted) - ExpectedOf(day))
            /\ (force \/ IsNone(counted)) => last'.ret.ok
            /\ (~IsNone(counted) /\ Counted(counted) = ExpectedOf(day))
                 => (last'.ret.ok /\ NewClose.cash_diff = Some(0))
            /\ (/\ last.op = "closeCashDay" /\ last.day = day
                /\ ~last.ret.ok /\ last.ret.error = ErrMismatch
                /\ ~IsNone(counted)
                /\ Counted(counted) = last.ret.expected_cash_end + Val(last.ret.cash_diff)
                /\ force)
                 => (/\ last'.ret.ok
                     /\ NewClose.cash_diff = last.ret.cash_diff
                     /\ NewClose.carry_to_next_day = Counted(counted))]_vars

(* A day was closed by force with a counted amount that differs from the    *)
(* expected one, and the counted amount is carried.                         *)
C9_Witness ==
  /\ last.op = "closeCashDay" /\ last.ret.ok
  /\ \E i \in DOMAIN cashCloses :
       /\ cashCloses[i].day = last.day
       /\ ~IsNone(cashCloses[i].cash_diff) /\ Val(cashCloses[i].cash_diff) # 0
       /\ cashCloses[i].carry_to_next_day = Val(cashCloses[i].cash_counted)
       /\ cashCloses[i].carry_to_next_day # cashCloses[i].expected_cash_end

(* C7: for an open day with any number of withdrawals, the opening_cash,    *)
(* cash_total, withdrawals_total and expected_cash_end a successful         *)
(* closeCashDay records equal what getCashPanel returned for the day just   *)
(* before, and expected_cash_end = opening + cash sales - the sum of all    *)
(* the day's withdrawals.                                                   *)
C7_CloseMatchesPanel ==
  [][\A day \in WorkDays, counted \in CountedInputs, carry \in CarryInputs,
        force \in BOOLEAN :
       (/\ last.op = "getCashPanel" /\ last.day = day
        /\ ~HasClose(cashCloses, day)
        /\ CloseCashDay(day, counted, carry, force)
        /\ last'.ret.ok)
         => /\ NewClose.opening_cash = last.ret.opening_cash
            /\ NewClose.cash_total = last.ret.cash_total
            /\ NewClose.withdrawals_total = last.ret.withdrawals_total
            /\ NewClose.expected_cash_end = last.ret.expected_cash_end
            /\ NewClose.expected_cash_end = ExpectedOf(day)]_vars

(* C10: setOpeningCash(day, amount) succeeds, storing amount on the day's   *)
(* CashDay with opening_cash_manual set, if and only if no CashClose exists *)
(* for any day; otherwise it is rejected and no CashDay row is created or   *)
(* changed.                                                                 *)
C10_OpeningOnlyBeforeAnyClose ==
  [][\A day \in WorkDays, amount \in OpeningInputs :
       SetOpeningCash(day, amount)
         => /\ last'.ret.ok <=> cashCloses = <<>>
            /\ last'.ret.ok =>
                 /\ IsAmount(cashDays'[day].opening_cash, amount)
                 /\ cashDays'[day].opening_cash_manual = 1
                 /\ \A d \in DOMAIN cashDays' \ {day} :
                      d \in DOMAIN cashDays /\ cashDays'[d] = cashDays[d]
            /\ ~last'.ret.ok => cashDays' = cashDays]_vars

(* An opening was refused for a day that is open, because another day is    *)
(* closed.                                                                  *)
C10_Witness ==
  /\ last.op = "setOpeningCash" /\ ~last.ret.ok
  /\ cashCloses # <<>>
  /\ ~HasClose(cashCloses, last.day)

(* C11: deleteCashMove removes a CashMove only while the move's day has no  *)
(* CashClose; for a move of a closed day the deletion is rejected and the   *)
(* move stays stored.                                                       *)
C11_NoDeleteAfterClose ==
  [][\A move_id \in MoveIdInputs :
       (/\ move_id \in DOMAIN cashMoves
        /\ HasClose(cashCloses, cashMoves[move_id].day)
        /\ DeleteCashMove(move_id))
         => /\ ~last'.ret.ok
            /\ cashMoves' = cashMoves]_vars

(* C12: addCashWithdrawal stores a CashMove only when amount > 0 and the    *)
(* day has no CashClose; with amount <= 0 or a closed day it is rejected    *)
(* and no CashMove is added, so every stored CashMove has amount > 0.       *)
C12_WithdrawalChecked ==
  /\ [](\A i \in DOMAIN cashMoves : cashMoves[i].amount > 0)
  /\ [][\A amount \in MovesWithdrawalInputs :
          AddCashWithdrawal(today, amount, MaxMoves)
            => /\ cashMoves' # cashMoves
                    => /\ amount > 0 /\ ~HasClose(cashCloses, today)
                       /\ last'.ret.ok
                       /\ DOMAIN cashMoves' = DOMAIN cashMoves \cup {last'.ret.id}
                       /\ last'.ret.id \notin DOMAIN cashMoves
                       /\ IsAmount(cashMoves'[last'.ret.id].amount, amount)
                       /\ cashMoves'[last'.ret.id].day = today
               /\ (amount <= 0 \/ HasClose(cashCloses, today))
                    => (~last'.ret.ok /\ cashMoves' = cashMoves)
               /\ last'.ret.ok => cashMoves' # cashMoves]_vars

(* A withdrawal was refused for a closed day that holds a withdrawal. *)
C12_Witness ==
  /\ last.op = "addCashWithdrawal"
  /\ ~last.ret.ok /\ last.ret.error = ErrDayClosed
  /\ HasClose(cashCloses, last.day)
  /\ \E i \in DOMAIN cashMoves : cashMoves[i].day = last.day

(* C19: for a day with no CashClose on any strictly earlier day,            *)
(* getCashPanel returns the stored opening_cash with source initial and     *)
(* needs_initial_opening false when the day's CashDay has                   *)
(* opening_cash_manual set; otherwise it returns opening 0 with source zero *)
(* and needs_initial_opening true exactly when the store holds no CashClose *)
(* of any day.                                                              *)
C19_OpeningWithoutPriorClose ==
  [][last'.op = "getCashPanel" =>
       \A day \in Days :
         (/\ \A i \in DOMAIN cashCloses : cashCloses[i].day >= day
          /\ GetCashPanel(day))
           => IF day \in DOMAIN cashDays /\ cashDays[day].opening_cash_manual = 1
              THEN /\ last'.ret.opening_cash = cashDays[day].opening_cash
                   /\ last'.ret.opening_source = "initial"
                   /\ ~last'.ret.needs_initial_opening
              ELSE /\ last'.ret.opening_cash = 0
                   /\ last'.ret.opening_source = "zero"
                   /\ last'.ret.needs_initial_opening <=> cashCloses = <<>>]_vars

(* The panel of a day with a manual opening and no earlier close showed the *)
(* stored opening, while a later day is closed.                             *)
C19_Witness ==
  /\ last.op = "getCashPanel"
  /\ last.ret.opening_source = "initial" /\ last.ret.opening_cash > 0
  /\ ~last.ret.needs_initial_opening
  /\ cashCloses # <<>>
  /\ \A i \in DOMAIN cashCloses : cashCloses[i].day > last.day

(* The panel of a day with no manual opening and no earlier close showed    *)
(* opening 0 without asking for an initial opening, the day itself being    *)
(* closed.                                                                  *)
C19_WitnessZero ==
  /\ last.op = "getCashPanel"
  /\ last.ret.opening_source = "zero" /\ last.ret.opening_cash = 0
  /\ ~last.ret.needs_initial_opening
  /\ \A i \in DOMAIN cashCloses : cashCloses[i].day >= last.day

(* C20: once a CashClose row is inserted, getCashPanel, setOpeningCash,     *)
(* addCashWithdrawal, deleteCashMove, checkout and closeCashDay, of its day *)
(* or of any other, leave the row stored with every field as inserted.      *)
C20_ClosesFrozen ==
  [][\A i \in DOMAIN cashCloses :
       i \in DOMAIN cashCloses' /\ cashCloses'[i] = cashCloses[i]]_vars

(* A day was closed while the close of an earlier day, taken with a         *)
(* withdrawal on record, is stored.                                         *)
C20_Witness ==
  /\ last.op = "closeCashDay" /\ last.ret.ok
  /\ Len(cashCloses) = 2
  /\ cashCloses[1].day = today /\ cashCloses[2].day # today
  /\ cashCloses[1].withdrawals_total > 0

HasPrior(day) == \E i \in DOMAIN cashCloses : cashCloses[i].day < day

(* The rows of every table but cash_days are as they were, and so are the   *)
(* cash_days rows of the other days.                                        *)
PanelLeavesRest(day) ==
  /\ sales' = sales /\ products' = products
  /\ cashMoves' = cashMoves /\ cashCloses' = cashCloses
  /\ DOMAIN cashDays' \ {day} = DOMAIN cashDays \ {day}
  /\ \A d \in DOMAIN cashDays \ {day} : cashDays'[d] = cashDays[d]

(* The day's row after the self-correction: the prior close's carry, not    *)
(* manual.                                                                  *)
PanelCorrected(day) ==
  /\ day \in DOMAIN cashDays'
  /\ cashDays'[day] = [opening_cash |-> PriorClose(cashCloses, day).carry_to_next_day,
                       opening_cash_manual |-> 0]

(* C21 as stated: getCashPanel(day) leaves every Sale, Product, CashMove    *)
(* and CashClose unchanged, and changes the day's CashDay only by           *)
(* overwriting opening_cash with the prior close's carry and manual = false *)
(* when a prior close exists; with no prior close cash_days is unchanged.   *)
C21_PanelOnlyCorrects ==
  [][last'.op = "getCashPanel" =>
       \A day \in Days :
         GetCashPanel(day)
           => /\ PanelLeavesRest(day)
              /\ IF HasPrior(day) THEN PanelCorrected(day)
                 ELSE cashDays' = cashDays]_vars

(* C21, amended: getCashPanel(day) leaves every Sale, Product, CashMove and *)
(* CashClose unchanged, and changes the day's CashDay only by creating it   *)
(* with opening_cash 0 and manual = false when it does not exist yet, and   *)
(* by overwriting opening_cash with the prior close's carry and manual =    *)
(* false when a prior close exists.                                         *)
C21_PanelCreatesOrCorrects ==
  [][last'.op = "getCashPanel" =>
       \A day \in Days :
         GetCashPanel(day)
           => /\ PanelLeavesRest(day)
              /\ IF HasPrior(day) THEN PanelCorrected(day)
                 ELSE IF day \in DOMAIN cashDays THEN cashDays' = cashDays
                 ELSE /\ DOMAIN cashDays' = DOMAIN cashDays \cup {day}
                      /\ cashDays'[day] = [opening_cash |-> 0,
                                           opening_cash_manual |-> 0]]_vars

(* The panel of the third day was read after the first day alone was closed *)
(* with cash counted, a sale and a withdrawal on record: the day's row      *)
(* holds the close's carry and is not manual.                               *)
C21_Witness ==
  /\ last.op = "getCashPanel" /\ last.ret.opening_source = "prev_close"
  /\ last.day = 3 /\ Len(cashCloses) = 1 /\ cashCloses[1].day = 1
  /\ cashCloses[1].carry_to_next_day = 100
  /\ cashDays[3] = [opening_cash |-> 100, opening_cash_manual |-> 0]
  /\ sales # <<>> /\ cashMoves # NoRows

(* The texts that read BORRAR once trimmed and upper-cased. *)
AcceptedTokens == {"BORRAR", "borrar", " Borrar "}

(* C22 as stated: resetDatabase(token) with a token that is not the exact   *)
(* confirmation string changes nothing; with the correct token it removes   *)
(* every Sale, SaleLine, CashMove, CashClose and CashDay and sets every     *)
(* product's stock to 0, while the set of products and each product's key,  *)
(* name, description, price and category stay unchanged.                    *)
C22_ResetNeedsExactToken ==
  [][last'.op = "resetDatabase" =>
       \A token \in ResetTokens :
         ResetDatabase(token)
           => IF token # "BORRAR"
              THEN /\ ~last'.ret.ok
                   /\ UNCHANGED <<products, sales, cashDays, cashMoves, cashCloses>>
              ELSE /\ last'.ret.ok
                   /\ sales' = <<>> /\ cashMoves' = NoRows
                   /\ cashCloses' = <<>> /\ cashDays' = NoRows
                   /\ DOMAIN products' = DOMAIN products
                   /\ \A k \in DOMAIN products :
                        /\ products'[k].unidades = 0
                        /\ products'[k].producto = products[k].producto
                        /\ products'[k].descripcion = products[k].descripcion
                        /\ products'[k].precio_final = products[k].precio_final
                        /\ products'[k].category = products[k].category]_vars

(* C22, amended: resetDatabase(token) with a token that, trimmed and        *)
(* upper-cased, is not the confirmation string BORRAR changes nothing; with *)
(* such a token it removes                                                  *)
(* every Sale, SaleLine, CashMove, CashClose and CashDay and sets every     *)
(* product's stock to 0, while the set of products and each product's key,  *)
(* name, description, price and category stay unchanged.                    *)
C22_ResetNeedsToken ==
  [][last'.op = "resetDatabase" =>
       \A token \in ResetTokens :
         ResetDatabase(token)
           => IF token \notin AcceptedTokens
              THEN /\ ~last'.ret.ok
                   /\ UNCHANGED <<products, sales, cashDays, cashMoves, cashCloses>>
              ELSE /\ last'.ret.ok
                   /\ sales' = <<>> /\ cashMoves' = NoRows
                   /\ cashCloses' = <<>> /\ cashDays' = NoRows
                   /\ DOMAIN products' = DOMAIN products
                   /\ \A k \in DOMAIN products :
                        /\ products'[k].unidades = 0
                        /\ products'[k].producto = products[k].producto
                        /\ products'[k].descripcion = products[k].descripcion
                        /\ products'[k].precio_final = products[k].precio_final
                        /\ products'[k].category = products[k].category]_vars

(* The database was reset: product b, never sold, is at stock 0 with its    *)
(* price, product a with its category, and no sale or cash row is left.     *)
C22_Witness ==
  /\ last.op = "resetDatabase" /\ last.ret.ok
  /\ sales = <<>> /\ cashMoves = NoRows /\ cashCloses = <<>> /\ cashDays = NoRows
  /\ DOMAIN products = Keys
  /\ products["b"].unidades = 0 /\ products["b"].precio_final = 150
  /\ products["a"].unidades = 0 /\ products["a"].category = "bebidas"

(* C24: in every reachable state, of two CashClose rows adjacent in day     *)
(* order (no CashClose of a day between theirs) the later row's             *)
(* opening_cash is the earlier row's carry_to_next_day, whatever order the  *)
(* days were closed in and whatever manual openings came before the first   *)
(* close.                                                                   *)
C24_CloseChain ==
  \A i, j \in DOMAIN cashCloses :
    (/\ cashCloses[i].day < cashCloses[j].day
     /\ ~\E k \in DOMAIN cashCloses :
           /\ cashCloses[i].day < cashCloses[k].day
           /\ cashCloses[k].day < cashCloses[j].day)
      => cashCloses[j].opening_cash = cashCloses[i].carry_to_next_day

(* C25: for every closed day, after any later operations other than         *)
(* resetDatabase, getCashPanel(day) reports opening_cash, cash_total,       *)
(* withdrawals_total and expected_cash_end equal to the values recorded in  *)
(* the day's CashClose.                                                     *)
C25_PanelMatchesClose ==
  last.op = "getCashPanel" =>
    \A i \in DOMAIN cashCloses :
      cashCloses[i].day = last.day
        => /\ last.ret.opening_cash = cashCloses[i].opening_cash
           /\ last.ret.cash_total = cashCloses[i].cash_total
           /\ last.ret.withdrawals_total = cashCloses[i].withdrawals_total
           /\ last.ret.expected_cash_end = cashCloses[i].expected_cash_end

(* C28: after a successful closeCashDay(D) with carry-forward c, the        *)
(* CashDay row of the calendar day D+1 exists with opening_cash = c and     *)
(* manual = false, whether or not a row for D+1 existed before and whatever *)
(* it held.                                                                 *)
C28_NextDaySeeded ==
  [][last'.op = "closeCashDay" /\ last'.ret.ok =>
       \A day \in Days, counted \in CountedInputs, force \in BOOLEAN :
         CloseCashDay(day, counted, None, force)
           => /\ NewClose.day = day
              /\ day + 1 \in DOMAIN cashDays'
              /\ cashDays'[day + 1] = [opening_cash |-> NewClose.carry_to_next_day,
                                       opening_cash_manual |-> 0]
              /\ last'.ret.carry_to_next_day = NewClose.carry_to_next_day]_vars

(* The second day was closed with 1.00 counted after the third day, whose   *)
(* row existed by then: the third day's row holds 1.00, not manual.         *)
C28_Witness ==
  /\ last.op = "closeCashDay" /\ last.ret.ok /\ last.day = 2
  /\ Len(cashCloses) = 2 /\ cashCloses[1].day = 3 /\ cashCloses[2].day = 2
  /\ cashCloses[1].opening_cash = 0
  /\ cashCloses[2].carry_to_next_day = 100
  /\ cashDays[3] = [opening_cash |-> 100, opening_cash_manual |-> 0]

----------------------------------------------------------------------------
(* Claims on concurrent requests *)

(* Every session has finished a checkout of the one unit of "b" in stock. *)
AllBoughtLastUnit ==
  \A t \in Sessions :
    /\ sess[t].pc = "done" /\ sess[t].op = "checkout"
    /\ sess[t].lines = <<Ln("b", 1)>>
    /\ sess[t].method \in {"cash", "card"}

(* Every session has finished a closeCashDay of the same day. *)
AllClosedToday ==
  \A t \in Sessions :
    sess[t].pc = "done" /\ sess[t].op = "closeCashDay" /\ sess[t].day = today

(* C5: when closeCashDay calls for the same open day run concurrently in    *)
(* separate transactions, after all finish there is exactly one CashClose   *)
(* for the day, one call succeeded and the others reported AlreadyClosed.   *)
C5_OneCloseWins ==
  AllClosedToday
    => /\ Cardinality(ClosesOf(cashCloses, today)) = 1
       /\ Cardinality({t \in Sessions : sess[t].ret.ok}) = 1
       /\ \A t \in Sessions : ~sess[t].ret.ok => sess[t].ret.error = ErrClosed

(* C1: of N >= 2 concurrent checkouts of the last unit of a product,        *)
(* exactly one succeeds, the others fail with InsufficientStock, and one    *)
(* Sale is recorded.                                                        *)
C1_OneCheckoutWins ==
  (InitProducts["b"].unidades = 1 /\ AllBoughtLastUnit)
    => /\ Cardinality({t \in Sessions : sess[t].ret.ok}) = 1
       /\ \A t \in Sessions : ~sess[t].ret.ok => sess[t].ret.error = ErrStock
       /\ Len(sales) = 1

(* C26: when addCashWithdrawal(day, ...) and closeCashDay(day, ...) run     *)
(* concurrently, every CashMove committed for the day is included in the    *)
(* withdrawals_total of the day's CashClose: no withdrawal is stored for a  *)
(* closed day without having been counted by its close.                     *)
C26_WithdrawalsCounted ==
  \A i \in DOMAIN cashCloses :
    cashCloses[i].withdrawals_total = WithdrawnOf(cashCloses[i].day)

(* Every session has finished, with success, a restock of "a" or a checkout *)
(* of "a", and there is at least one of each.                               *)
AllMovedStock ==
  /\ \A t \in Sessions :
       /\ sess[t].pc = "done" /\ sess[t].ret.ok
       /\ \/ sess[t].op = "restockProduct" /\ sess[t].key = "a"
          \/ sess[t].op = "checkout"
  /\ \E t \in Sessions : sess[t].op = "restockProduct"
  /\ \E t \in Sessions : sess[t].op = "checkout"

(* The units a finished session added to "a" (sold units count negative). *)
Moved(t) ==
  IF sess[t].op = "restockProduct" THEN sess[t].delta
  ELSE 0 - Requested(sess[t].lines, "a")

(* C27: when adjustStock(key, +d) and a checkout of q units of the same     *)
(* product run concurrently and both succeed, the product's final stock is  *)
(* initial + d - q: neither the restock nor the sale decrement is lost.     *)
C27_NoLostStockUpdate ==
  AllMovedStock
    => products["a"].unidades =
         InitProducts["a"].unidades + SumOver([t \in Sessions |-> Moved(t)], Sessions)

====
